---- MODULE Spec2Model ----
(***************************************************************************)
(* Model of poketerm's terminal image renderer, src/main.py:               *)
(* get_ascii_image (lines 61-105), called as main calls it and with an     *)
(* explicit width.                                                         *)
(*                                                                         *)
(* Python's None is modelled as the empty set and a present value v as     *)
(* {v}; a truth test `if v:` is the operator Truthy.                       *)
(***************************************************************************)
EXTENDS Integers, Sequences, FiniteSets, TLC

\* ---------------------------------------------------------------- bounds
\* largest number of pixels (W * H) of a decoded raster
MaxArea == 3
\* largest explicit --size / the largest width the small terminals lead to
MaxSize == 3
\* how far below and above Clamp + Margin the wide terminals range
WideSpan == 2

\* ------------------------------------------------------ program constants
Margin == 4
Clamp == 100
AlphaThreshold == 128
\* the literal 0.48 as the fraction ScaleNum / ScaleDen
ScaleNum == 12
ScaleDen == 25

\* glyphs appended by the renderer, named by their code points
LowerHalfBlock == "U+2584"
UpperHalfBlock == "U+2580"
Blank == " "
Newline == "\n"

None == {}
Some(v) == {v}
The(opt) == CHOOSE v \in opt : TRUE

\* Python truth of an optional int (`if size:`): None and 0 are false
Truthy(opt) == opt # None /\ The(opt) # 0

Min(a, b) == IF a <= b THEN a ELSE b

\* int() of the quotient n / d, d > 0: truncation toward zero
Trunc(n, d) == IF n >= 0 THEN n \div d ELSE -((-n) \div d)

\* ------------------------------------------------------------- rasters
\* RGBA samples: an opaque one, one just above the alpha threshold and one
\* exactly on it
Palette == { <<255, 0, 0, 255>>, <<0, 255, 0, 129>>, <<0, 0, 255, 128>> }

Coords(w, h) == (0 .. (w - 1)) \X (0 .. (h - 1))

RastersOf(w, h) == { [status |-> "ok", w |-> w, h |-> h, px |-> p] :
                     p \in [Coords(w, h) -> Palette] }

\* what Image.open(...).convert("RGBA") can hand to the renderer
Shapes == { d \in (0 .. MaxArea) \X (0 .. MaxArea) : d[1] * d[2] <= MaxArea }
Rasters == UNION { RastersOf(d[1], d[2]) : d \in Shapes }

\* wide, flat rasters of one colour, used with the wide terminals
FlatRasters == { [status |-> "ok", w |-> MaxArea + 1, h |-> 1,
                  px |-> [c \in Coords(MaxArea + 1, 1) |-> p]] : p \in Palette }

\* the fetch or the decode raising inside the try block
Failure(e) == [status |-> e, w |-> 0, h |-> 0, px |-> [c \in Coords(0, 0) |-> <<0, 0, 0, 0>>]]
Failures == { Failure("HTTPStatusError"), Failure("UnidentifiedImageError") }

\* --------------------------------------------------------- the renderer
\* a defect of lines 73-78: the clamp applied before the margin is taken off
TargetWidthClampFirst(width, size, console_width) ==
    IF Truthy(size) THEN The(size)
    ELSE Min(IF width = None THEN console_width ELSE The(width), Clamp) - Margin

\* lines 73-78
TargetWidth(width, size, console_width) ==
    IF Truthy(size) THEN The(size)
    ELSE Min((IF width = None THEN console_width ELSE The(width)) - Margin, Clamp)

\* line 80: int(width * (H / W) * 0.48).  The binary64 value truncates to the
\* same integer as the exact quotient for every input within the bounds of
\* this module (the two differ only when W is a multiple of 3 and width a
\* multiple of 25, where rounding of H / W puts the product just below an
\* integer).
HeightChars(width, original_width, original_height) ==
    Trunc(width * original_height * ScaleNum, original_width * ScaleDen)

\* a defect of line 81: one pixel row short of two per character row
ResizeHeightOdd(height_chars) == height_chars * 2 - 1

\* line 81: the height handed to resize
ResizeHeight(height_chars) == height_chars * 2

\* line 81: Image.resize hands back a copy when the size is the image's own,
\* and otherwise rejects a size below 1 in either dimension with ValueError
ResizeRaises(img, w, h) == ~(w = img.w /\ h = img.h) /\ (w < 1 \/ h < 1)

\* line 81: the resized raster.  The Lanczos kernel is abstracted to sampling
\* the source pixel under the centre of each target pixel (the identity when
\* the size is unchanged); the result has exactly the requested size, which
\* is all the renderer relies on.
Resize(img, w, h) ==
    [status |-> "ok", w |-> w, h |-> h,
     px |-> [c \in Coords(w, h) |->
               img.px[<<((2 * c[1] + 1) * img.w) \div (2 * w),
                        ((2 * c[2] + 1) * img.h) \div (2 * h)>>]]]

\* line 87: does the row below y exist
HasLower(img, y) == y + 1 < img.h

\* lines 86-90
Upper(img, x, y) == img.px[<<x, y>>]
Lower(img, x, y) == IF HasLower(img, y) THEN img.px[<<x, y + 1>>] ELSE <<0, 0, 0, 0>>

\* the f"rgb({r},{g},{b})" colour of a sample
Rgb(p) == <<"rgb", p[1], p[2], p[3]>>

\* a defect of lines 92-93: the threshold itself counted as opaque
OpaqueInclusive(p) == p[4] >= AlphaThreshold

\* lines 92-93
Opaque(p) == p[4] > AlphaThreshold
ColorOf(p) == IF Opaque(p) THEN Some(Rgb(p)) ELSE None

\* one piece of a rich Text: the characters and the Style they carry
Segment(t, color, bgcolor) == [text |-> t, color |-> color, bgcolor |-> bgcolor]

\* a defect of lines 95-100: the two half blocks exchanged
CellSwapped(img, x, y) ==
    LET fg_color == IF Lower(img, x, y)[4] > AlphaThreshold
                      THEN Some(<<"rgb", Lower(img, x, y)[1], Lower(img, x, y)[2], Lower(img, x, y)[3]>>)
                      ELSE None
        bg_color == IF Upper(img, x, y)[4] > AlphaThreshold
                      THEN Some(<<"rgb", Upper(img, x, y)[1], Upper(img, x, y)[2], Upper(img, x, y)[3]>>)
                      ELSE None
    IN  IF fg_color # None /\ bg_color # None
          THEN [text |-> UpperHalfBlock, color |-> fg_color, bgcolor |-> bg_color]
        ELSE IF fg_color # None
          THEN [text |-> UpperHalfBlock, color |-> fg_color, bgcolor |-> None]
        ELSE IF bg_color # None
          THEN [text |-> LowerHalfBlock, color |-> bg_color, bgcolor |-> None]
        ELSE [text |-> Blank, color |-> None, bgcolor |-> None]

\* lines 92-102
Cell(img, x, y) ==
    LET fg_color == ColorOf(Lower(img, x, y))
        bg_color == ColorOf(Upper(img, x, y))
    IN  IF fg_color # None /\ bg_color # None
          THEN Segment(LowerHalfBlock, fg_color, bg_color)
        ELSE IF fg_color # None
          THEN Segment(LowerHalfBlock, fg_color, None)
        ELSE IF bg_color # None
          THEN Segment(UpperHalfBlock, bg_color, None)
        ELSE Segment(Blank, None, None)

\* lines 85-102: the inner loop over x
RowCells(img, y) == [i \in 1 .. img.w |-> Cell(img, i - 1, y)]

\* a defect of line 103: a separator after every row that has a lower row
RowEndAlways(img, y) ==
    IF y + 1 < img.h THEN << [text |-> Newline, color |-> None, bgcolor |-> None] >> ELSE << >>

\* lines 103-104
RowEnd(img, y) == IF y + 2 < img.h THEN << Segment(Newline, None, None) >> ELSE << >>

\* lines 84-104: the outer loop over y = 0, 2, 4, ...
RECURSIVE RenderFrom(_, _)
RenderFrom(img, y) ==
    IF y >= img.h THEN << >>
    ELSE RowCells(img, y) \o RowEnd(img, y) \o RenderFrom(img, y + 2)

\* line 90 reached for some cell of the loop
SyntheticTaken(img) ==
    \E y \in 0 .. (img.h - 1) : y % 2 = 0 /\ img.w > 0 /\ ~HasLower(img, y)

\* a defect of line 67: a blank cell returned in place of the message
ErrorTextBlank(e) == << [text |-> Blank, color |-> None, bgcolor |-> None] >>

\* line 67
ErrorText(e) == << Segment("Error loading image: " \o e, None, None) >>

\* the record of one call: how it ended (the Text returned or the exception
\* raised) and what it did on the way: the width after lines 73-78, the
\* console width if line 77 read it, the size handed to resize, the resized
\* raster, and whether line 90 ran
Outcome(kind, exc, text, width, console_read, resize_size, img, synthetic) ==
    [kind |-> kind, exc |-> exc, text |-> text, width |-> width,
     console_read |-> console_read, resize_size |-> resize_size, img |-> img,
     synthetic |-> synthetic]

Idle == Outcome("idle", "", << >>, None, None, None, None, FALSE)

\* a defect of line 80: the height taken from the terminal width, not from
\* the width lines 73-78 settled on
get_ascii_image_console(image, width, size, console_width) ==
    IF image.status # "ok"
      THEN Outcome("return", "", ErrorText(image.status), None, None, None, None, FALSE)
    ELSE IF image.w = 0
      THEN Outcome("raise", "ZeroDivisionError", << >>, None, None, None, None, FALSE)
    ELSE
      LET w == TargetWidth(width, size, console_width)
          read == IF ~Truthy(size) /\ width = None THEN Some(console_width) ELSE None
          h == ResizeHeight(HeightChars(console_width - Margin, image.w, image.h))
      IN  IF ResizeRaises(image, w, h)
            THEN Outcome("raise", "ValueError", << >>, Some(w), read, Some(<<w, h>>),
                         None, FALSE)
          ELSE LET img == Resize(image, w, h)
               IN  Outcome("return", "", RenderFrom(img, 0), Some(w), read,
                           Some(<<w, h>>), Some(img), SyntheticTaken(img))

\* lines 61-105
get_ascii_image(image, width, size, console_width) ==
    IF image.status # "ok"
      THEN Outcome("return", "", ErrorText(image.status), None, None, None, None, FALSE)
    ELSE IF image.w = 0
      THEN Outcome("raise", "ZeroDivisionError", << >>, None, None, None, None, FALSE)
    ELSE
      LET w == TargetWidth(width, size, console_width)
          read == IF ~Truthy(size) /\ width = None THEN Some(console_width) ELSE None
          h == ResizeHeight(HeightChars(w, image.w, image.h))
      IN  IF ResizeRaises(image, w, h)
            THEN Outcome("raise", "ValueError", << >>, Some(w), read, Some(<<w, h>>),
                         None, FALSE)
          ELSE LET img == Resize(image, w, h)
               IN  Outcome("return", "", RenderFrom(img, 0), Some(w), read,
                           Some(<<w, h>>), Some(img), SyntheticTaken(img))

\* ---------------------------------------------------------------- state
VARIABLES
    served,         \* what the image URL decodes to, or how the fetch fails
    console_width,  \* Console().width, the detected terminal width
    outcome,        \* the last call of get_ascii_image
    again           \* the last call reached the width of the call before it
                    \* from another source (argument or terminal)

vars == <<served, console_width, outcome, again>>

Sizes == {None} \cup { Some(s) : s \in -1 .. MaxSize }
TermWidths == (Margin - 1) .. (Margin + MaxSize)
WideTermWidths == (Clamp + Margin - WideSpan) .. (Clamp + Margin + WideSpan)
WidthArgs == {None} \cup { Some(w) : w \in { Margin, Margin + MaxSize } }

Init ==
    /\ served \in Rasters \cup Failures
    /\ console_width \in TermWidths
    /\ outcome = Idle
    /\ again = FALSE

InitTerm ==
    /\ served \in FlatRasters
    /\ console_width \in WideTermWidths
    /\ outcome = Idle
    /\ again = FALSE

\* a call get_ascii_image(image_url, width, size); main (line 175) calls it
\* with width absent and size = args.size
GetAsciiImage ==
    \E width \in WidthArgs, size \in Sizes :
        /\ outcome' = get_ascii_image(served, width, size, console_width)
        /\ again' = /\ outcome.width # None
                    /\ outcome'.width = outcome.width
                    /\ outcome'.console_read # outcome.console_read
        /\ UNCHANGED <<served, console_width>>

\* the terminal is resized between calls
ResizeTerminal(widths) ==
    \E cw \in widths \ {console_width} :
        /\ console_width' = cw
        /\ UNCHANGED <<served, outcome, again>>

Next == GetAsciiImage \/ ResizeTerminal(TermWidths)

Spec == Init /\ [][Next]_vars

NextTerm == GetAsciiImage \/ ResizeTerminal(WideTermWidths)

SpecTerm == InitTerm /\ [][NextTerm]_vars

\* ------------------------------------------------------------ properties
Called == outcome.kind # "idle"
Decoded == served.status = "ok"
\* the call built a grid: the resize succeeded and the loops ran
Rendered == outcome.kind = "return" /\ outcome.img # None
IsCell(seg) == seg.text # Newline

\* the rows of a text: the maximal runs of segments between row separators
RECURSIVE SplitRows(_, _)
SplitRows(text, row) ==
    IF text = << >> THEN << row >>
    ELSE IF Head(text).text = Newline THEN << row >> \o SplitRows(Tail(text), << >>)
    ELSE SplitRows(Tail(text), Append(row, Head(text)))
GridRows(text) == IF text = << >> THEN << >> ELSE SplitRows(text, << >>)

\* floor(target_width * (H / W) * 0.48) for a raster `served` with W >= 1
FloorHeight(target_width) ==
    (target_width * served.h * 12) \div (served.w * 25)

\* C1: for every raster with W >= 1 and H >= 1 and every target width >= 1 the
\* call raises nothing and returns a grid of floor(target_width * (H/W) * 0.48)
\* rows of exactly target_width cells each, also when that row count is 0.
C1_NoExceptionGrid ==
    (Called /\ Decoded /\ served.w >= 1 /\ served.h >= 1
        /\ outcome.width # None /\ The(outcome.width) >= 1)
    => /\ outcome.kind = "return"
       /\ Len(GridRows(outcome.text)) = FloorHeight(The(outcome.width))
       /\ \A k \in 1 .. Len(GridRows(outcome.text)) :
              Len(GridRows(outcome.text)[k]) = The(outcome.width)

\* the cell of output row k (from 0) and column x of a rendered grid, and the
\* two samples of the resized raster it is built from
CellAt(x, k) == GridRows(outcome.text)[k + 1][x + 1]
UpperPx(x, k) == The(outcome.img).px[<<x, 2 * k>>]
LowerPx(x, k) == The(outcome.img).px[<<x, 2 * k + 1>>]
Solid(p) == p[4] > 128
RgbOf(p) == <<"rgb", p[1], p[2], p[3]>>
GridCells == { c \in (0 .. (The(outcome.img).w - 1)) \X (0 .. (The(outcome.img).h \div 2 - 1)) : TRUE }

\* the cell the renderer must emit for an upper and a lower sample, with the
\* glyph for "both or only the lower sample opaque" and the glyph for "only
\* the upper sample opaque" left open
Expected(up, lo, lowerGlyph, upperGlyph) ==
    IF Solid(lo) /\ Solid(up) THEN Segment(lowerGlyph, Some(RgbOf(lo)), Some(RgbOf(up)))
    ELSE IF Solid(lo) THEN Segment(lowerGlyph, Some(RgbOf(lo)), None)
    ELSE IF Solid(up) THEN Segment(upperGlyph, Some(RgbOf(up)), None)
    ELSE Segment(Blank, None, None)

\* C2 as claimed: with a sample opaque exactly when its alpha is > 128, both
\* opaque gives the UPPER half block with foreground (x, y+1) and background
\* (x, y); only (x, y+1) opaque the UPPER half block with that foreground;
\* only (x, y) opaque the LOWER half block with foreground (x, y); neither the
\* blank glyph without colours.
C2_ClaimedGlyphs ==
    Rendered => \A c \in GridCells :
        CellAt(c[1], c[2]) =
            Expected(UpperPx(c[1], c[2]), LowerPx(c[1], c[2]), UpperHalfBlock, LowerHalfBlock)

\* C2 amended: the same colours and the same threshold, with the glyphs the
\* other way round: the LOWER half block U+2584 when the sample (x, y+1) is
\* opaque, the UPPER half block U+2580 when only the sample (x, y) is.
C2_CellRule ==
    Rendered => \A c \in GridCells :
        CellAt(c[1], c[2]) =
            Expected(UpperPx(c[1], c[2]), LowerPx(c[1], c[2]), LowerHalfBlock, UpperHalfBlock)

\* a grid holding a two-colour cell whose foreground has alpha 129, a cell
\* with only its upper sample opaque (the lower one has alpha 128), and a
\* blank cell
C2_Witness ==
    /\ Rendered
    /\ \E c \in GridCells : /\ CellAt(c[1], c[2]).bgcolor # None
                            /\ CellAt(c[1], c[2]).color # CellAt(c[1], c[2]).bgcolor
                            /\ LowerPx(c[1], c[2])[4] = 129
    /\ \E c \in GridCells : /\ CellAt(c[1], c[2]).text = UpperHalfBlock
                            /\ LowerPx(c[1], c[2])[4] = 128
    /\ \E c \in GridCells : CellAt(c[1], c[2]).text = Blank

\* C3: in every grid, a cell without colours is the blank glyph, and a cell
\* with exactly one colour is the half block filled on the side (lower or
\* upper source row) of the sample that supplied the colour.
C3_CellInvariant ==
    Rendered => \A c \in GridCells :
        LET cell == CellAt(c[1], c[2])
            up == UpperPx(c[1], c[2])
            lo == LowerPx(c[1], c[2])
        IN  /\ (cell.color = None /\ cell.bgcolor = None) => cell.text = Blank
            /\ ((cell.color = None) # (cell.bgcolor = None)) =>
                   \/ cell.text = LowerHalfBlock /\ Solid(lo) /\ ~Solid(up)
                        /\ cell.color = Some(RgbOf(lo))
                   \/ cell.text = UpperHalfBlock /\ Solid(up) /\ ~Solid(lo)
                        /\ cell.color = Some(RgbOf(up))

\* a grid with a one-colour lower half block, a one-colour upper half block
\* and a blank cell
C3_Witness ==
    /\ Rendered
    /\ \E c \in GridCells : CellAt(c[1], c[2]) =
           Segment(UpperHalfBlock, Some(RgbOf(UpperPx(c[1], c[2]))), None)
    /\ \E c \in GridCells : CellAt(c[1], c[2]).text = Blank
    /\ \E c \in GridCells : CellAt(c[1], c[2]).bgcolor # None

ResultKind(o) == IF o.kind = "return" THEN "Text" ELSE o.exc

C6_ClampThenMargin ==
    outcome.console_read # None
    => The(outcome.width) = Min(The(outcome.console_read), 100) - 4

\* C6 amended: without an explicit size (and width) the target width is
\* min(terminal_width - 4, 100): the margin is taken off first, then the
\* result is clamped to 100.
C6_MarginThenClamp ==
    outcome.console_read # None
    => The(outcome.width) = Min(The(outcome.console_read) - 4, 100)

\* a grid rendered 100 wide on a terminal wider than 104, and so clamped
C6_Witness ==
    /\ Rendered
    /\ outcome.console_read # None
    /\ The(outcome.console_read) > 104
    /\ The(outcome.width) = 100
    /\ The(outcome.img).w = 100
    /\ Len(outcome.text) > 100

\* C7: whenever a call reaches the resize, the width it hands to it is a
\* positive integer, whatever size, width and terminal width are.
C7_PositiveResizeWidth ==
    outcome.resize_size # None => The(outcome.resize_size)[1] >= 1

\* the positions of the row separators in the returned text
Separators == { i \in 1 .. Len(outcome.text) : ~IsCell(outcome.text[i]) }

\* C8: a grid of R >= 1 rows holds exactly R - 1 row separators, each right
\* after exactly target_width cells, and does not end with one.
C8_Separators ==
    Rendered =>
        LET R == (The(outcome.img).h + 1) \div 2
            w == The(outcome.width)
        IN  R >= 1 =>
              /\ Len(outcome.text) = R * w + (R - 1)
              /\ Separators = { k * (w + 1) : k \in 1 .. (R - 1) }
              /\ IsCell(outcome.text[Len(outcome.text)])

\* a grid of at least three rows
C8_Witness == Rendered /\ Cardinality(Separators) >= 2 /\ The(outcome.width) >= 2

\* C9: two calls on the same raster that reach the same target width return
\* the same thing, whichever argument or terminal width led to that width.
C9_SameInputsSameGrid ==
    [][ (outcome'.width # None /\ outcome'.width = outcome.width)
        => (outcome'.kind = outcome.kind /\ outcome'.exc = outcome.exc
            /\ outcome'.text = outcome.text) ]_vars

\* a grid rendered a second time at the same width, the width once given as
\* an argument and once read from the terminal
C9_Witness == again /\ Rendered /\ Len(outcome.text) > 1

\* C10: the resized raster has an even height, twice height_chars; no cell
\* takes the synthetic transparent pixel for a missing lower row; the grid
\* has exactly height_chars rows.
C10_EvenHeight ==
    Rendered =>
        /\ The(outcome.img).h % 2 = 0
        /\ ~outcome.synthetic
        /\ The(outcome.img).h = 2 * FloorHeight(The(outcome.width))
        /\ Len(GridRows(outcome.text)) = FloorHeight(The(outcome.width))

\* a grid of at least two rows
C10_Witness == Rendered /\ Len(GridRows(outcome.text)) >= 2

====
